---- MODULE Spec2Model ----
(***************************************************************************)
(* Model of peaclock/scripts/peaclockfunks.py: the functions that resolve  *)
(* the configuration of a peaclock run from the built-in defaults, the    *)
(* YAML config file and the command-line arguments.                       *)
(*                                                                         *)
(* Python text is a sequence of one-character strings, so that replace,   *)
(* split, startswith, lower and the path functions are computed the way   *)
(* the code computes them.  A Python value carries its type as a tag.     *)
(***************************************************************************)
EXTENDS Integers, Sequences, FiniteSets, TLC

VARIABLES
    pc,         \* the function the run calls next, or "exit"
    config,     \* the config dict
    args,       \* the command-line arguments read so far
    yamlfile,   \* <cwd>/config.yaml: whether it exists, what it holds
    dirs,       \* the directories of the file system
    ret,        \* what the last function returned
    exitcode,   \* exit status of the process, once pc = "exit"
    stderr,     \* what the run wrote to standard error
    stdout,     \* what the run printed
    pending,    \* TemporaryDirectory objects dropped but not yet finalized
    dropped,    \* every path a TemporaryDirectory finalizer has removed
    run,        \* number of the current run
    resolved,   \* the timestamped output directories resolved so far
    last,       \* the function called last
    before      \* the dict and the directories as the function called last found them

vars == <<pc, config, args, yamlfile, dirs, ret, exitcode, stderr, stdout,
          pending, dropped, run, resolved, last, before>>

----------------------------------------------------------------------------
(* Bounds *)

MaxNow == 3       \* datetime.now() ranges over 0..MaxNow half-milliseconds
MaxRuns == 2      \* runs of the resolver in SpecRuns

----------------------------------------------------------------------------
(* Python values *)

Str(s) == <<"str", s>>
Bool(b) == <<"bool", b>>
List(l) == <<"list", l>>
None == <<"none", <<>>>>

\* truth value of a Python value, as `if arg:` tests it
Truthy(v) ==
    CASE v[1] = "bool" -> v[2]
      [] v[1] = "str"  -> v[2] # <<>>
      [] v[1] = "list" -> v[2] # <<>>
      [] OTHER         -> FALSE

----------------------------------------------------------------------------
(* str methods *)

StartsWith(s, p) == Len(p) <= Len(s) /\ SubSeq(s, 1, Len(p)) = p

EndsWith(s, p) == Len(p) <= Len(s) /\ SubSeq(s, Len(s) - Len(p) + 1, Len(s)) = p

RECURSIVE Replace(_, _, _)
Replace(s, old, new) ==
    IF s = <<>> THEN <<>>
    ELSE (IF Head(s) = old THEN new ELSE <<Head(s)>>) \o Replace(Tail(s), old, new)

RECURSIVE LStrip(_, _)
LStrip(s, c) == IF s # <<>> /\ Head(s) = c THEN LStrip(Tail(s), c) ELSE s

RECURSIVE Split(_, _)
Split(s, sep) ==
    IF \A i \in 1..Len(s) : s[i] # sep THEN <<s>>
    ELSE LET i == CHOOSE k \in 1..Len(s) :
                      s[k] = sep /\ \A j \in 1..(k - 1) : s[j] # sep
         IN  <<SubSeq(s, 1, i - 1)>> \o Split(SubSeq(s, i + 1, Len(s)), sep)

RECURSIVE Join(_, _)
Join(parts, sep) ==
    IF parts = <<>> THEN <<>>
    ELSE IF Len(parts) = 1 THEN parts[1]
    ELSE parts[1] \o sep \o Join(Tail(parts), sep)

UpperCase == <<"A","B","C","D","E","F","G","H","I","J","K","L","M","N","O","P","Q","R","S","T","U","V","W","X","Y","Z">>
LowerCase == <<"a","b","c","d","e","f","g","h","i","j","k","l","m","n","o","p","q","r","s","t","u","v","w","x","y","z">>

LowerChar(c) ==
    IF \E i \in 1..Len(UpperCase) : UpperCase[i] = c
    THEN LowerCase[CHOOSE i \in 1..Len(UpperCase) : UpperCase[i] = c]
    ELSE c

RECURSIVE Lower(_)
Lower(s) == IF s = <<>> THEN <<>> ELSE <<LowerChar(Head(s))>> \o Lower(Tail(s))

Digit == <<"0","1","2","3","4","5","6","7","8","9">>

\* a natural number below 1000 as three digits
Digits3(n) ==
    <<Digit[((n \div 100) % 10) + 1], Digit[((n \div 10) % 10) + 1], Digit[(n % 10) + 1]>>

----------------------------------------------------------------------------
(* dict *)

Put(d, k, v) == [x \in DOMAIN d \cup {k} |-> IF x = k THEN v ELSE d[x]]

\* the dict a literal with these (key, value) pairs builds: the last pair of a key wins
RECURSIVE Dict(_)
Dict(pairs) ==
    IF pairs = <<>> THEN [x \in {} |-> None]
    ELSE Put(Dict(SubSeq(pairs, 1, Len(pairs) - 1)), pairs[Len(pairs)][1], pairs[Len(pairs)][2])

----------------------------------------------------------------------------
(* The machine the resolver runs on *)

cwd == <<"/","w">>                  \* os.getcwd() of the run
HomeDir == <<"/","h">>              \* what ~ expands to
SysTempDir == <<"/","t","m","p">>         \* tempfile.gettempdir()
PackageDir == <<"/","p","k","g">>         \* where the peaclock package is installed
Today == <<"2","0","2","6","-","1","1","-","0","2">>        \* date.today() as %Y-%m-%d
ClockSecond == <<"2","0","2","6","-","1","1","-","0","2","T","1","0",":","1","1",":","1","2">>   \* the second datetime.now() falls in

\* names mkdtemp may draw for a new temporary directory
TempNames == {<<"t","m","p","a">>, <<"t","m","p","b">>}

\* directories that exist before the first run
InitialDirs == {<<"/">>, <<"/","w">>, <<"/","h">>, <<"/","t","m","p">>, <<"/","p","k","g">>,
                <<"/","w","/","r","e","a","d","s">>, <<"/","w","/","r","e","a","d","s","/","p","a","s","s">>, <<"/","w","/","e","m","p","t","y">>, <<"/","w","/","o","l","d">>}

\* a barcodes csv as csv.DictReader reads it: the header line, then the rows
CsvFile(h, r) == [header |-> h, rows |-> r]

\* regular files other than <cwd>/config.yaml, with the content of the csv files
Files ==
    Dict(<<
      <<<<"/","w","/","m","y",".","y","a","m","l">>, CsvFile(<<>>, <<>>)>>,
      <<<<"/","w","/","b","c",".","c","s","v">>, CsvFile(<<<<"b","a","r","c","o","d","e">>>>, << <<<<"N","B","0","1">>>>, <<<<"N","B","0","2">>>>, <<<<"B","C","0","3">>>> >>)>>,
      <<<<"/","w","/","b","c","2",".","c","s","v">>, CsvFile(<<<<"s","a","m","p","l","e">>, <<"b","a","r","c","o","d","e">>>>,
                               << <<<<"s","1">>, <<"B","C","0","3">>>>, <<<<"s","2">>, <<"N","B","0","1">>>>, <<<<"s","3">>, <<"B","C","0","3">>>> >>)>>,
      <<<<"/","w","/","n","o","h","d","r",".","c","s","v">>, CsvFile(<<<<"n","a","m","e">>>>, << <<<<"N","B","0","1">>>> >>)>>,
      <<<<"/","w","/","b","a","d",".","c","s","v">>, CsvFile(<<<<"b","a","r","c","o","d","e">>>>, << <<<<"N","B","0","1">>>>, <<<<"X","X","0","4">>>> >>)>>,
      <<<<"/","w","/","r","e","a","d","s","/","a",".","f","a","s","t","q">>, CsvFile(<<>>, <<>>)>>,
      <<<<"/","w","/","r","e","a","d","s","/","p","a","s","s","/","B",".","F","Q">>, CsvFile(<<>>, <<>>)>>,
      <<<<"/","w","/","e","m","p","t","y","/","n","o","t","e","s",".","t","x","t">>, CsvFile(<<>>, <<>>)>>
    >>)

ConfigYaml == <<"c","o","n","f","i","g",".","y","a","m","l">>

\* the documents <cwd>/config.yaml may hold: the (key, value) pairs in file order
YamlDocs == {
    <<>>,
    << <<<<"s","p","e","c","i","e","s">>, Str(<<"m","u","s">>)>>, <<<<"n","o","-","t","e","m","p">>, Bool(TRUE)>>, <<<<"t","e","m","p","d","i","r">>, Str(<<"y","t","m","p">>)>> >>,
    << <<<<"s","p","e","c","i","e","s">>, Str(<<"c","a","t">>)>>, <<<<"r","e","a","d","_","p","a","t","h">>, Str(<<>>)>>,
       <<<<"b","a","r","c","o","d","e","s","_","c","s","v">>, Str(<<"n","o","h","d","r",".","c","s","v">>)>>, <<<<"b","a","r","c","o","d","e","s">>, Str(<<>>)>> >>,
    << <<<<"o","u","t","p","u","t","-","p","r","e","f","i","x">>, Str(<<"r","u","n","_","2","0","2","0">>)>>, <<<<"r","e","a","d","_","p","a","t","h">>, Str(<<"r","e","a","d","s">>)>>,
       <<<<"b","a","r","c","o","d","e","s","_","c","s","v">>, Str(<<"b","c",".","c","s","v">>)>>, <<<<"t","e","m","p","d","i","r">>, Str(<<"y","t","m","p">>)>>,
       <<<<"n","o","_","t","e","m","p">>, Bool(FALSE)>> >>,
    << <<<<"r","e","a","d","_","p","a","t","h">>, Str(<<"e","m","p","t","y">>)>>, <<<<"a","l","l","o","w","e","d","_","s","p","e","c","i","e","s">>, List(<<<<"c","a","t">>, <<"m","u","s">>>>)>>,
       <<<<"s","p","e","c","i","e","s">>, Str(<<"c","a","t">>)>>, <<<<"b","a","r","c","o","d","e","_","k","i","t">>, Str(<<"N","a","t","i","v","e">>)>> >>
  }

----------------------------------------------------------------------------
(* os.path *)

\* os.path.join(a, b)
PathJoin(a, b) ==
    IF StartsWith(b, <<"/">>) THEN b
    ELSE IF a = <<>> \/ EndsWith(a, <<"/">>) THEN a \o b
    ELSE a \o <<"/">> \o b

\* os.path.expanduser(p)
ExpandUser(p) ==
    IF p = <<"~">> \/ StartsWith(p, <<"~","/">>) THEN HomeDir \o Tail(p) ELSE p

\* os.path.dirname(p)
DirName(p) ==
    LET parts == Split(p, "/")
        head == Join(SubSeq(parts, 1, Len(parts) - 1), <<"/">>)
    IN  IF Len(parts) = 1 THEN <<>>
        ELSE IF head = <<>> THEN <<"/">>
        ELSE head

\* os.path.basename(p)
BaseName(p) == LET parts == Split(p, "/") IN parts[Len(parts)]

\* length of the longest common prefix of two sequences
RECURSIVE CommonLen(_, _)
CommonLen(a, b) ==
    IF a = <<>> \/ b = <<>> \/ Head(a) # Head(b) THEN 0
    ELSE 1 + CommonLen(Tail(a), Tail(b))

\* os.path.relpath(path, start), both absolute and normalised
RelPath(path, start) ==
    LET p == SelectSeq(Split(path, "/"), LAMBDA x : x # <<>>)
        s == SelectSeq(Split(start, "/"), LAMBDA x : x # <<>>)
        n == CommonLen(p, s)
        rel == [i \in 1..(Len(s) - n) |-> <<".",".">>] \o SubSeq(p, n + 1, Len(p))
    IN  IF Len(s) - n = 0 /\ Len(p) = n THEN <<".">>
        ELSE IF Len(s) - n = 0 THEN Join(SubSeq(p, n + 1, Len(p)), <<"/">>)
        ELSE Join(rel, <<"/">>)

\* os.path.isfile(p)
IsFile(p, yf) == p \in DOMAIN Files \/ (p = PathJoin(cwd, ConfigYaml) /\ yf.exists)

\* os.path.exists(p)
Exists(p, ds, yf) == p \in ds \/ IsFile(p, yf)

----------------------------------------------------------------------------
(* Output: a message is the sequence of its pieces, literal text or values *)
(* (the backquotes some messages have around option names are left out)     *)

Lit(t) == <<"lit", t>>
Val(s) == <<"val", s>>
Num(n) == <<"num", n>>

END_FORMATTING == Lit("\\033[0m")
GREEN == Lit("\\033[32m")
CYAN == Lit("\\u001b[36m")

cyan(text) == <<CYAN>> \o text \o <<END_FORMATTING>>

green(text) == <<GREEN>> \o text \o <<END_FORMATTING>>

\* the names bound at module level: the imports, the constants, the functions
ModuleGlobals ==
    {"os", "argparse", "csv", "sys", "SeqIO", "datetime", "date", "tempfile",
     "pkg_resources", "yaml", "END_FORMATTING", "BOLD", "UNDERLINE", "RED",
     "GREEN", "YELLOW", "CYAN", "DIM", "get_defaults", "add_arg_to_config",
     "look_for_config", "parse_yaml_file", "make_timestamped_outdir",
     "get_outdir", "get_temp_dir", "get_read_length_filter", "get_package_data",
     "look_for_guppy_barcoder", "look_for_basecalled_reads",
     "look_for_barcodes_csv", "check_barcode_kit", "get_snakefile",
     "make_cpg_header", "colour", "red", "cyan", "green", "yellow",
     "bold_underline"}

\* what the interpreter writes when a name bound nowhere is read
NameError(name) == <<Lit("NameError: name "), Lit(name), Lit(" is not defined")>>

\* sys.exit(-1): the exit status is the low byte
ExitStatus(n) == n % 256

\* exit status of a run ended by an uncaught exception
UncaughtStatus == ExitStatus(1)

----------------------------------------------------------------------------
(* What a call leaves behind: the dict, the value returned, the directories, *)
(* the lines printed, and how it ended: "return", "exit" or "raise"          *)

Return(cfg, value, ds, out) ==
    [config |-> cfg, ret |-> value, dirs |-> ds, out |-> out,
     how |-> "return", err |-> <<>>, code |-> 0]

\* sys.stderr.write(msg); sys.exit(-1)
SysExit(cfg, ds, out, msg) ==
    [config |-> cfg, ret |-> None, dirs |-> ds, out |-> out,
     how |-> "exit", err |-> msg, code |-> ExitStatus(-1)]

\* an exception nothing catches: the interpreter writes the traceback and ends
Raise(cfg, ds, out, msg) ==
    [config |-> cfg, ret |-> None, dirs |-> ds, out |-> out,
     how |-> "raise", err |-> msg, code |-> UncaughtStatus]

----------------------------------------------------------------------------
(* get_defaults, add_arg_to_config, look_for_config, parse_yaml_file *)

get_defaults ==
    Dict(<<
      <<<<"n","o","_","t","e","m","p">>, Bool(FALSE)>>,
      <<<<"d","e","m","u","l","t","i","p","l","e","x">>, Bool(FALSE)>>,
      <<<<"p","a","t","h","_","t","o","_","g","u","p","p","y">>, Bool(FALSE)>>,
      <<<<"o","u","t","p","u","t","_","p","r","e","f","i","x">>, Str(<<"p","e","a","c","l","o","c","k">>)>>,
      <<<<"s","p","e","c","i","e","s">>, Str(<<"a","p","o","d","e","m","u","s">>)>>,
      <<<<"b","a","r","c","o","d","e","s">>, Str(<<"n","a","t","i","v","e">>)>>,
      <<<<"c","o","n","f","i","g","f","i","l","e">>, Str(<<"c","o","n","f","i","g",".","y","a","m","l">>)>>,
      <<<<"a","l","l","o","w","e","d","_","s","p","e","c","i","e","s">>, List(<<<<"a","p","o","d","e","m","u","s">>, <<"m","u","s">>, <<"p","h","a","l","a","c","r","o","c","o","r","a","x">>>>)>>,
      <<<<"f","o","r","c","e">>, Bool(TRUE)>>
    >>)

\* add_arg_to_config without its test of arg
add_arg_to_config_untested(key, arg, cfg) == Put(cfg, key, arg)

add_arg_to_config(key, arg, cfg) ==
    IF Truthy(arg) THEN Put(cfg, key, arg) ELSE cfg

look_for_config(configfile_arg, wd, cfg, ds, yf) ==
    CASE Truthy(configfile_arg) /\ "input_file" \notin ModuleGlobals ->
           \* configfile is joined, then line 46 reads input_file
           Raise(cfg, ds, <<>>, NameError("input_file"))
      [] ~Truthy(configfile_arg) ->
           LET configfile == PathJoin(wd, ConfigYaml)
               cfg1 == Put(cfg, <<"p","a","t","h","_","t","o","_","c","o","n","f","i","g">>, Str(wd))
           IN  IF IsFile(configfile, yf)
               THEN Return(Put(cfg1, <<"c","o","n","f","i","g","f","i","l","e">>, Str(configfile)), Str(configfile), ds, <<>>)
               ELSE Return(cfg1, Str(<<>>), ds,
                           << cyan(<<Lit("Note: cannot find configfile at "), Val(<<>>)>>) >>)

\* the key a config-file key is stored under
snakecase_key(key) == LStrip(Replace(key, "-", <<"_">>), "-")

\* the loop over the keys of the loaded document, in file order
RECURSIVE parse_yaml_file(_, _)
parse_yaml_file(input_config, cfg) ==
    IF input_config = <<>> THEN cfg
    ELSE parse_yaml_file(Tail(input_config),
                         Put(cfg, snakecase_key(Head(input_config)[1]), Head(input_config)[2]))

----------------------------------------------------------------------------
(* make_timestamped_outdir, get_outdir *)

\* datetime.now() is a number of microseconds into ClockSecond
Instants == {i * 500 : i \in 0..MaxNow}

\* datetime.isoformat(timespec='milliseconds')
isoformat(now) == ClockSecond \o <<".">> \o Digits3(now \div 1000)

\* the timestamp cut at the second
timestamp_seconds(now) ==
    Replace(Replace(ClockSecond, ":", <<>>), "T", <<"-">>)

\* str(...).replace(":","").replace(".","").replace("T","-")
timestamp(now) ==
    Replace(Replace(Replace(isoformat(now), ":", <<>>), ".", <<>>), "T", <<"-">>)

\* the prefix without a last "_" segment that starts with "20"
strip_date(output_prefix) ==
    LET split_prefix == Split(output_prefix, "_")
    IN  IF StartsWith(split_prefix[Len(split_prefix)], <<"2","0">>)
        THEN Join(SubSeq(split_prefix, 1, Len(split_prefix) - 1), <<"_">>)
        ELSE output_prefix

make_timestamped_outdir(wd, cfg, now) ==
    LET output_prefix == strip_date(cfg[<<"o","u","t","p","u","t","_","p","r","e","f","i","x">>][2])
        species == cfg[<<"s","p","e","c","i","e","s">>][2]
    IN  [outdir |-> PathJoin(wd, output_prefix \o <<"_">> \o species \o <<"_">> \o timestamp(now)),
         rel_outdir |-> PathJoin(<<".">>, timestamp(now)),
         config |-> Put(cfg, <<"o","u","t","p","u","t","_","p","r","e","f","i","x">>, Str(output_prefix))]

\* os.mkdir(path) succeeds when the parent is a directory
CanMkdir(path, ds) == DirName(path) \in ds

FileNotFoundError(path) == <<Lit("FileNotFoundError: "), Val(path)>>

get_outdir(outdir_arg, output_prefix_arg, wd, cfg, ds, yf, now) ==
    LET cfg1 == add_arg_to_config(<<"o","u","t","p","u","t","_","p","r","e","f","i","x">>, output_prefix_arg, cfg)
        made == IF Truthy(outdir_arg)
                THEN LET outdir == PathJoin(wd, ExpandUser(outdir_arg[2]))
                     IN  [outdir |-> outdir, rel_outdir |-> RelPath(outdir, wd), config |-> cfg1]
                ELSE make_timestamped_outdir(wd, cfg1, now)
        cfg2 == Put(made.config, <<"o","u","t","p","u","t","_","p","r","e","f","i","x">>,
                    Str(strip_date(made.config[<<"o","u","t","p","u","t","_","p","r","e","f","i","x">>][2]) \o <<"_">> \o Today))
        ds1 == IF Exists(made.outdir, ds, yf) THEN ds ELSE ds \cup {made.outdir}
        line == green(<<Lit("Output dir:")>>) \o <<Lit(" "), Val(made.outdir)>>
    IN  IF ~Exists(made.outdir, ds, yf) /\ ~CanMkdir(made.outdir, ds)
        THEN Raise(cfg2, ds, <<>>, FileNotFoundError(made.outdir))
        ELSE Return(Put(Put(cfg2, <<"o","u","t","d","i","r">>, Str(made.outdir)),
                        <<"r","e","l","_","o","u","t","d","i","r">>, Str(PathJoin(<<".">>, made.rel_outdir))),
                    None, ds1, <<line>>)

----------------------------------------------------------------------------
(* get_temp_dir *)

\* the if/elif chain with the two tempdir arms in the other order
temp_dir_case_swapped(tempdir_arg, no_temp_arg, cfg) ==
    IF Truthy(no_temp_arg) THEN "no_temp_arg"
    ELSE IF Truthy(cfg[<<"n","o","_","t","e","m","p">>]) THEN "no_temp_config"
    ELSE IF <<"t","e","m","p","d","i","r">> \in DOMAIN cfg THEN "tempdir_config"
    ELSE IF Truthy(tempdir_arg) THEN "tempdir_arg"
    ELSE "default"

\* which arm of the if/elif chain runs
temp_dir_case(tempdir_arg, no_temp_arg, cfg) ==
    IF Truthy(no_temp_arg) THEN "no_temp_arg"
    ELSE IF Truthy(cfg[<<"n","o","_","t","e","m","p">>]) THEN "no_temp_config"
    ELSE IF Truthy(tempdir_arg) THEN "tempdir_arg"
    ELSE IF <<"t","e","m","p","d","i","r">> \in DOMAIN cfg THEN "tempdir_config"
    ELSE "default"

\* the directory the TemporaryDirectory is made in
to_be_dir(tempdir_arg, no_temp_arg, wd, cfg) ==
    CASE temp_dir_case(tempdir_arg, no_temp_arg, cfg) = "tempdir_arg" ->
           PathJoin(wd, ExpandUser(tempdir_arg[2]))
      [] temp_dir_case(tempdir_arg, no_temp_arg, cfg) = "tempdir_config" ->
           PathJoin(wd, ExpandUser(cfg[<<"t","e","m","p","d","i","r">>][2]))
      [] OTHER -> SysTempDir

\* the names tempfile.TemporaryDirectory(dir=parent) can give the new directory
FreshTempNames(parent, ds, yf) ==
    {name \in TempNames : ~Exists(PathJoin(parent, name), ds, yf)}

no_temp_line(outdir) ==
    green(<<Lit("--no-temp:")>>)
      \o <<Lit(" All intermediate files will be written to "), Val(outdir)>>

\* the result carries in `temp` the directory whose TemporaryDirectory object
\* was bound to the local temporary_directory, which the return drops
get_temp_dir(tempdir_arg, no_temp_arg, wd, cfg, ds, yf, name) ==
    LET outdir == cfg[<<"o","u","t","d","i","r">>][2]
        arm == temp_dir_case(tempdir_arg, no_temp_arg, cfg)
        parent == to_be_dir(tempdir_arg, no_temp_arg, wd, cfg)
        ds1 == IF Exists(parent, ds, yf) THEN ds ELSE ds \cup {parent}
        tempdir == PathJoin(parent, name)
    IN  CASE arm = "no_temp_arg" ->
               [r |-> Return(Put(Put(cfg, <<"n","o","_","t","e","m","p">>, no_temp_arg), <<"t","e","m","p","d","i","r">>, Str(outdir)),
                             Str(outdir), ds, <<no_temp_line(outdir)>>),
                temp |-> {}]
          [] arm = "no_temp_config" ->
               [r |-> Return(Put(cfg, <<"t","e","m","p","d","i","r">>, Str(outdir)),
                             Str(outdir), ds, <<no_temp_line(outdir)>>),
                temp |-> {}]
          [] arm \in {"tempdir_arg", "tempdir_config"}
               /\ ~Exists(parent, ds, yf) /\ ~CanMkdir(parent, ds) ->
               [r |-> Raise(cfg, ds, <<>>, FileNotFoundError(parent)), temp |-> {}]
          [] OTHER ->
               [r |-> Return(Put(cfg, <<"t","e","m","p","d","i","r">>, Str(tempdir)),
                             Str(tempdir), ds1 \cup {tempdir}, <<>>),
                temp |-> {tempdir}]

----------------------------------------------------------------------------
(* get_package_data *)

\* pkg_resources.resource_filename('peaclock', name)
resource_filename(name) == PathJoin(PackageDir, name)

\* `x in l` for a list l
InList(x, l) == \E i \in 1..Len(l) : l[i] = x

\* the membership test against the built-in list instead of the dict's
species_allowed_builtin(species, cfg) == InList(species, get_defaults[<<"a","l","l","o","w","e","d","_","s","p","e","c","i","e","s">>][2])

species_allowed(species, cfg) == InList(species, cfg[<<"a","l","l","o","w","e","d","_","s","p","e","c","i","e","s">>][2])

\* f"data/{species}/<file>"
species_data(species, file) == <<"d","a","t","a","/">> \o species \o <<"/">> \o file

not_configured(species) ==
    cyan(<<Lit("Error: "), Val(species),
           Lit(" specified not configured in PEAClock\nPlease select an alternative species\n")>>)

get_package_data(species_arg, cfg, ds) ==
    LET cfg1 == Put(cfg, <<"m","a","t","r","i","x","_","f","i","l","e">>, Str(resource_filename(<<"s","u","b","s","t","i","t","u","t","i","o","n","_","m","a","t","r","i","x",".","t","x","t">>)))
        cfg2 == add_arg_to_config(<<"s","p","e","c","i","e","s">>, species_arg, cfg1)
        species == cfg2[<<"s","p","e","c","i","e","s">>][2]
        cfg3 == Put(cfg2, <<"c","p","g","_","s","i","t","e","s">>, Str(resource_filename(species_data(species, <<"c","p","g","_","s","i","t","e","s",".","c","s","v">>))))
        cfg4 == Put(cfg3, <<"g","e","n","e","s">>, Str(resource_filename(species_data(species, <<"g","e","n","e","s",".","f","a","s","t","a">>))))
        cfg5 == Put(cfg4, <<"p","r","i","m","e","r","_","s","e","q","u","e","n","c","e","s">>,
                    Str(resource_filename(species_data(species, <<"p","r","i","m","e","r","_","s","e","q","u","e","n","c","e","s",".","c","s","v">>))))
    IN  IF species_allowed(species, cfg2)
        THEN Return(cfg5, None, ds, <<>>)
        ELSE SysExit(cfg2, ds, <<>>, not_configured(species))

----------------------------------------------------------------------------
(* look_for_basecalled_reads *)

\* the files os.walk(top) meets: every regular file anywhere below a directory
Walk(top, ds) ==
    IF top \in ds THEN {f \in DOMAIN Files : StartsWith(f, top \o <<"/">>)} ELSE {}

is_fastq(fn) ==
    LET filename == Lower(fn)
    IN  EndsWith(filename, <<".","f","a","s","t","q">>) \/ EndsWith(filename, <<".","f","q">>)

count_fastq(read_path, ds) ==
    Cardinality({f \in Walk(read_path, ds) : is_fastq(BaseName(f))})

look_for_basecalled_reads(read_path_arg, wd, cfg, ds, yf) ==
    IF Truthy(read_path_arg)
    THEN LET read_path == PathJoin(wd, ExpandUser(read_path_arg[2]))
         IN  IF ~Exists(read_path, ds, yf)
             THEN SysExit(cfg, ds, <<>>,
                          cyan(<<Lit("Error: cannot find reads at "), Val(read_path), Lit("\n")>>))
             ELSE Return(Put(cfg, <<"r","e","a","d","_","p","a","t","h">>, Str(read_path)), None, ds, <<>>)
    ELSE IF <<"r","e","a","d","_","p","a","t","h">> \in DOMAIN cfg
    THEN IF Truthy(cfg[<<"r","e","a","d","_","p","a","t","h">>])
         THEN LET read_path == PathJoin(cfg[<<"p","a","t","h","_","t","o","_","c","o","n","f","i","g">>][2],
                                        ExpandUser(cfg[<<"r","e","a","d","_","p","a","t","h">>][2]))
                  fq_files == count_fastq(read_path, ds)
              IN  IF fq_files > 0
                  THEN Return(cfg, None, ds,
                              << <<Lit("Found "), Num(fq_files),
                                   Lit(" fastq files in the input directory")>> >>)
                  ELSE SysExit(cfg, ds, <<>>,
                               cyan(<<Lit("Error: cannot find fastq files at "), Val(read_path),
                                      Lit("\nPlease check your --read-dir")>>))
         ELSE Return(cfg, None, ds, <<>>)
    ELSE SysExit(cfg, ds, <<>>,
                 cyan(<<Lit("Error: --read-dir needed. Please input the path to the fastq read files either in the config file or via the command line.\n")>>))

----------------------------------------------------------------------------
(* look_for_barcodes_csv *)

\* row["barcode"] of a csv.DictReader row: the last column of that name
barcode_of(header, row) ==
    row[CHOOSE i \in 1..Len(header) :
            header[i] = <<"b","a","r","c","o","d","e">> /\ \A j \in (i + 1)..Len(header) : header[j] # <<"b","a","r","c","o","d","e">>]

valid_barcode(b) == StartsWith(b, <<"N","B">>) \/ StartsWith(b, <<"B","C">>)

\* the local list `barcodes` once the loop over the rows is over
read_barcodes(file) == [i \in 1..Len(file.rows) |-> barcode_of(file.header, file.rows[i])]

\* the path of the csv, "" when none is given, and the dict after lines 227-243
barcodes_csv_path(barcodes_csv_arg, wd, cfg) ==
    IF Truthy(barcodes_csv_arg)
    THEN [path |-> PathJoin(wd, barcodes_csv_arg[2]), config |-> cfg]
    ELSE IF <<"b","a","r","c","o","d","e","s","_","c","s","v">> \in DOMAIN cfg
    THEN IF Truthy(cfg[<<"b","a","r","c","o","d","e","s","_","c","s","v">>])
         THEN [path |-> PathJoin(cfg[<<"p","a","t","h","_","t","o","_","c","o","n","f","i","g">>][2], ExpandUser(cfg[<<"b","a","r","c","o","d","e","s","_","c","s","v">>][2])),
               config |-> cfg]
         ELSE [path |-> <<>>, config |-> Put(cfg, <<"b","a","r","c","o","d","e","s","_","c","s","v">>, Str(<<>>))]
    ELSE [path |-> <<>>, config |-> Put(cfg, <<"b","a","r","c","o","d","e","s","_","c","s","v">>, Str(<<>>))]

look_for_barcodes_csv(barcodes_csv_arg, wd, cfg, ds, yf) ==
    LET found == barcodes_csv_path(barcodes_csv_arg, wd, cfg)
        barcodes_csv == found.path
        first == << <<Lit("Input barcodes csv file: "), Val(barcodes_csv)>> >>
    IN  IF Truthy(barcodes_csv_arg) /\ ~Exists(barcodes_csv, ds, yf)
        THEN SysExit(cfg, ds, <<>>,
                     <<Lit("Error: cannot find barcodes csv at "), Val(barcodes_csv), Lit("\n")>>)
        ELSE IF barcodes_csv = <<>>
        THEN Return(found.config, None, ds,
                    first \o << green(<<Lit("No barcodes csv file input")>>) >>)
        ELSE IF ~IsFile(barcodes_csv, yf)
        THEN Raise(found.config, ds, first, FileNotFoundError(barcodes_csv))
        ELSE LET file == Files[barcodes_csv]
                 barcodes == read_barcodes(file)
             IN  IF ~InList(<<"b","a","r","c","o","d","e">>, file.header)
                 THEN SysExit(found.config, ds, first,
                              <<Lit("Error: Barcode file missing header field barcode\n")>>)
                 ELSE IF \E i \in 1..Len(barcodes) : ~valid_barcode(barcodes[i])
                 THEN SysExit(found.config, ds, first,
                              <<Lit("Error: Please provide barcodes in the format NB01 or BC01\n")>>)
                 ELSE Return(found.config, None, ds,
                             first
                               \o << <<Num(Len(barcodes)), Lit(" barcodes read in from file")>> >>
                               \o [i \in 1..Len(barcodes) |-> <<Lit("  - "), Val(barcodes[i])>>])

----------------------------------------------------------------------------
(* check_barcode_kit *)

\* the function has no parameters: its first statement reads barcode_kit_arg
check_barcode_kit(cfg, ds) ==
    CASE "barcode_kit_arg" \notin ModuleGlobals ->
           Raise(cfg, ds, <<>>, NameError("barcode_kit_arg"))

----------------------------------------------------------------------------
(* Command-line arguments: None or False when the option is not given *)

ConfigfileArgs == {None, Str(<<"m","y",".","y","a","m","l">>), Str(<<"g","o","n","e",".","y","a","m","l">>)}
OutdirArgs == {None, Str(<<"o","u","t">>)}
OutputPrefixArgs == {None, Str(<<"r","u","n","_","2","0","2","0">>)}
TempdirArgs == {None, Str(<<"s","c","r">>)}
NoTempArgs == {Bool(FALSE), Bool(TRUE)}
SpeciesArgs == {None, Str(<<"m","u","s">>), Str(<<"c","a","t">>)}
ReadPathArgs == {None, Str(<<"r","e","a","d","s">>), Str(<<"g","o","n","e">>)}
BarcodesCsvArgs == {None, Str(<<"b","c",".","c","s","v">>), Str(<<"b","c","2",".","c","s","v">>), Str(<<"n","o","h","d","r",".","c","s","v">>),
                    Str(<<"b","a","d",".","c","s","v">>), Str(<<"g","o","n","e",".","c","s","v">>)}
BarcodeKitArgs == {None, Str(<<"N","a","t","i","v","e">>), Str(<<"i","l","l","u","m","i","n","a">>)}

\* the option the override step applies, with the value given for it
Overrides == {
    <<<<"s","p","e","c","i","e","s">>, Str(<<"m","u","s">>)>>, <<<<"s","p","e","c","i","e","s">>, None>>,
    <<<<"b","a","r","c","o","d","e","s">>, Str(<<"p","c","r">>)>>, <<<<"b","a","r","c","o","d","e","s">>, Str(<<>>)>>,
    <<<<"n","o","_","t","e","m","p">>, Bool(FALSE)>>, <<<<"t","h","r","e","a","d","s">>, None>>
  }

----------------------------------------------------------------------------
(* The run: the functions in the order the command calls them *)

Sequence ==
    <<"look_for_config", "parse_yaml_file", "merge_overrides", "get_outdir",
      "get_temp_dir", "get_package_data", "look_for_basecalled_reads",
      "look_for_barcodes_csv", "check_barcode_kit">>

After(f) == Sequence[(CHOOSE i \in 1..Len(Sequence) : Sequence[i] = f) + 1]

NoArgs == [x \in {} |-> None]

Init ==
    /\ pc = "look_for_config"
    /\ config = get_defaults
    /\ args = NoArgs
    /\ yamlfile \in {[exists |-> FALSE, doc |-> <<>>]}
                      \cup {[exists |-> TRUE, doc |-> d] : d \in YamlDocs}
    /\ dirs = InitialDirs
    /\ ret = None
    /\ exitcode = 0
    /\ stderr = <<>>
    /\ stdout = <<>>
    /\ pending = {}
    /\ dropped = {}
    /\ run = 1
    /\ resolved = <<>>
    /\ last = "get_defaults"
    /\ before = [config |-> get_defaults, dirs |-> InitialDirs]

\* what the command calls after look_for_config returned configfile
after_look_for_config(configfile) ==
    IF Truthy(configfile) THEN "parse_yaml_file" ELSE After("parse_yaml_file")

\* the state after function f, called on the current dict, ended as r says
Finish(f, r, next) ==
    /\ pc' = IF r.how = "return" THEN next ELSE "exit"
    /\ config' = r.config
    /\ dirs' = r.dirs
    /\ ret' = r.ret
    /\ exitcode' = r.code
    /\ stderr' = r.err
    /\ stdout' = stdout \o r.out
    /\ last' = f
    /\ before' = [config |-> config, dirs |-> dirs]

Step_look_for_config ==
    /\ pc = "look_for_config"
    /\ \E configfile_arg \in ConfigfileArgs :
         LET r == look_for_config(configfile_arg, cwd, config, dirs, yamlfile)
         IN  /\ args' = Put(args, "configfile", configfile_arg)
             /\ Finish("look_for_config", r, after_look_for_config(r.ret))
    /\ UNCHANGED <<yamlfile, pending, dropped, run, resolved>>

Step_parse_yaml_file ==
    /\ pc = "parse_yaml_file"
    /\ Finish("parse_yaml_file",
              Return(parse_yaml_file(yamlfile.doc, config), None, dirs, <<>>),
              After("parse_yaml_file"))
    /\ UNCHANGED <<args, yamlfile, pending, dropped, run, resolved>>

Step_merge_overrides ==
    /\ pc = "merge_overrides"
    /\ \E o \in Overrides :
         /\ args' = Put(Put(args, "override_key", Str(o[1])), "override_arg", o[2])
         /\ Finish("merge_overrides",
                   Return(add_arg_to_config(o[1], o[2], config), None, dirs, <<>>),
                   After("merge_overrides"))
    /\ UNCHANGED <<yamlfile, pending, dropped, run, resolved>>

Step_get_outdir ==
    /\ pc = "get_outdir"
    /\ \E outdir_arg \in OutdirArgs, output_prefix_arg \in OutputPrefixArgs, now \in Instants :
         LET r == get_outdir(outdir_arg, output_prefix_arg, cwd, config, dirs, yamlfile, now)
         IN  /\ args' = Put(Put(args, "outdir", outdir_arg), "output_prefix", output_prefix_arg)
             /\ Finish("get_outdir", r, After("get_outdir"))
             /\ resolved' =
                  IF Truthy(outdir_arg) \/ r.how # "return" THEN resolved
                  ELSE Append(resolved,
                              [now |-> now, outdir |-> r.config[<<"o","u","t","d","i","r">>][2],
                               existed |-> r.config[<<"o","u","t","d","i","r">>][2] \in dirs])
    /\ UNCHANGED <<yamlfile, pending, dropped, run>>

\* the return of get_temp_dir drops the only reference to the TemporaryDirectory
\* object; its finalizer removes the directory, at once where objects are
\* reference-counted, at a later collection otherwise
Step_get_temp_dir ==
    /\ pc = "get_temp_dir"
    /\ \E tempdir_arg \in TempdirArgs, no_temp_arg \in NoTempArgs, at_once \in BOOLEAN :
         \E name \in FreshTempNames(to_be_dir(tempdir_arg, no_temp_arg, cwd, config),
                                    dirs, yamlfile) :
           LET g == get_temp_dir(tempdir_arg, no_temp_arg, cwd, config, dirs, yamlfile, name)
               r == IF at_once THEN [g.r EXCEPT !.dirs = g.r.dirs \ g.temp] ELSE g.r
           IN  /\ args' = Put(Put(args, "tempdir", tempdir_arg), "no_temp", no_temp_arg)
               /\ Finish("get_temp_dir", r, After("get_temp_dir"))
               /\ pending' = IF at_once THEN pending ELSE pending \cup g.temp
               /\ dropped' = IF at_once THEN dropped \cup g.temp ELSE dropped
    /\ UNCHANGED <<yamlfile, run, resolved>>

\* a pending TemporaryDirectory finalizer runs: the directory is removed
Finalize ==
    /\ \E p \in pending :
         /\ pending' = pending \ {p}
         /\ dropped' = dropped \cup {p}
         /\ dirs' = dirs \ {p}
    /\ UNCHANGED <<pc, config, args, yamlfile, ret, exitcode, stderr, stdout,
                   run, resolved, last, before>>

Step_get_package_data ==
    /\ pc = "get_package_data"
    /\ \E species_arg \in SpeciesArgs :
         /\ args' = Put(args, "species", species_arg)
         /\ Finish("get_package_data", get_package_data(species_arg, config, dirs),
                   After("get_package_data"))
    /\ UNCHANGED <<yamlfile, pending, dropped, run, resolved>>

Step_look_for_basecalled_reads ==
    /\ pc = "look_for_basecalled_reads"
    /\ \E read_path_arg \in ReadPathArgs :
         /\ args' = Put(args, "read_dir", read_path_arg)
         /\ Finish("look_for_basecalled_reads",
                   look_for_basecalled_reads(read_path_arg, cwd, config, dirs, yamlfile),
                   After("look_for_basecalled_reads"))
    /\ UNCHANGED <<yamlfile, pending, dropped, run, resolved>>

Step_look_for_barcodes_csv ==
    /\ pc = "look_for_barcodes_csv"
    /\ \E barcodes_csv_arg \in BarcodesCsvArgs :
         /\ args' = Put(args, "barcodes_csv", barcodes_csv_arg)
         /\ Finish("look_for_barcodes_csv",
                   look_for_barcodes_csv(barcodes_csv_arg, cwd, config, dirs, yamlfile),
                   After("look_for_barcodes_csv"))
    /\ UNCHANGED <<yamlfile, pending, dropped, run, resolved>>

Step_check_barcode_kit ==
    /\ pc = "check_barcode_kit"
    /\ \E barcode_kit_arg \in BarcodeKitArgs :
         /\ args' = Put(args, "barcode_kit", barcode_kit_arg)
         /\ Finish("check_barcode_kit", check_barcode_kit(config, dirs), "return_config")
    /\ UNCHANGED <<yamlfile, pending, dropped, run, resolved>>

\* the command is run again: a new process, the same file system
NewRun ==
    /\ pc \in {"get_temp_dir", "exit"}
    /\ run < MaxRuns
    /\ run' = run + 1
    /\ pc' = "look_for_config"
    /\ config' = get_defaults
    /\ args' = NoArgs
    /\ ret' = None
    /\ exitcode' = 0
    /\ stderr' = <<>>
    /\ stdout' = <<>>
    /\ last' = "get_defaults"
    /\ before' = [config |-> get_defaults, dirs |-> dirs]
    /\ UNCHANGED <<yamlfile, dirs, pending, dropped, resolved>>

Next ==
    \/ Step_look_for_config
    \/ Step_parse_yaml_file
    \/ Step_merge_overrides
    \/ Step_get_outdir
    \/ Step_get_temp_dir
    \/ Finalize
    \/ Step_get_package_data
    \/ Step_look_for_basecalled_reads
    \/ Step_look_for_barcodes_csv
    \/ Step_check_barcode_kit

Spec == Init /\ [][Next]_vars

\* the resolver run again and again, up to the output directory
NextRuns ==
    \/ Step_look_for_config
    \/ Step_parse_yaml_file
    \/ Step_merge_overrides
    \/ Step_get_outdir
    \/ NewRun

SpecRuns == Init /\ [][NextRuns]_vars

----------------------------------------------------------------------------
(* Properties *)

\* the document the run merged: that of <cwd>/config.yaml when the file exists
Merged == IF yamlfile.exists THEN yamlfile.doc ELSE <<>>

\* whether the config file gives a value for option k, and the value it gives
FileSupplies(k) == \E i \in 1..Len(Merged) : snakecase_key(Merged[i][1]) = k

FileValue(k) ==
    Merged[CHOOSE i \in 1..Len(Merged) :
             /\ snakecase_key(Merged[i][1]) = k
             /\ \A j \in (i + 1)..Len(Merged) : snakecase_key(Merged[j][1]) # k][2]

\* the value of option k after the defaults, the config file and then the
\* command-line value a were applied; Absent when no source gives one
Absent == <<"absent", <<>>>>

Precedence(k, a) ==
    IF Truthy(a) THEN a
    ELSE IF FileSupplies(k) THEN FileValue(k)
    ELSE IF k \in DOMAIN get_defaults THEN get_defaults[k]
    ELSE Absent

Lookup(d, k) == IF k \in DOMAIN d THEN d[k] ELSE Absent

\* the species after the override step and then --species were applied
ResolvedSpecies ==
    IF Truthy(args["species"]) THEN args["species"]
    ELSE IF args["override_key"] = Str(<<"s","p","e","c","i","e","s">>)
    THEN Precedence(<<"s","p","e","c","i","e","s">>, args["override_arg"])
    ELSE Precedence(<<"s","p","e","c","i","e","s">>, None)

DefaultTempCase ==
    /\ "tempdir" \in DOMAIN args
    /\ ~Truthy(args["no_temp"])
    /\ ~Truthy(args["tempdir"])
    /\ ~Truthy(config[<<"n","o","_","t","e","m","p">>])
    /\ ~FileSupplies(<<"t","e","m","p","d","i","r">>)

\* C2: while the run goes on after get_temp_dir took its last arm, the
\* directory config["tempdir"] names exists.
C2_TempDirSurvives ==
    (DefaultTempCase /\ pc # "exit") => config[<<"t","e","m","p","d","i","r">>][2] \in dirs

\* t is a directory made inside parent that did not exist before the call
NewSubdir(t, parent) ==
    /\ DirName(t) = parent
    /\ t # parent
    /\ t \notin before.dirs
    /\ parent \in dirs

\* C3: get_temp_dir chooses by strict priority: the output directory itself
\* when --no-temp or no_temp in the dict is set; else a new subdirectory of
\* the --tempdir directory; else a new subdirectory of the dict's tempdir;
\* else a new directory in the system location.  The path chosen is recorded
\* as config["tempdir"] and returned.
C3_TempDirPriority ==
    (last = "get_temp_dir" /\ pc # "exit") =>
      /\ config[<<"t","e","m","p","d","i","r">>] = ret
      /\ IF Truthy(args["no_temp"]) \/ Truthy(before.config[<<"n","o","_","t","e","m","p">>])
         THEN config[<<"t","e","m","p","d","i","r">>] = config[<<"o","u","t","d","i","r">>]
         ELSE IF Truthy(args["tempdir"])
         THEN NewSubdir(config[<<"t","e","m","p","d","i","r">>][2], PathJoin(cwd, args["tempdir"][2]))
         ELSE IF <<"t","e","m","p","d","i","r">> \in DOMAIN before.config
         THEN NewSubdir(config[<<"t","e","m","p","d","i","r">>][2], PathJoin(cwd, before.config[<<"t","e","m","p","d","i","r">>][2]))
         ELSE NewSubdir(config[<<"t","e","m","p","d","i","r">>][2], SysTempDir)

C3_Witness ==
    /\ last = "get_temp_dir"
    /\ pc # "exit"
    /\ ~Truthy(args["no_temp"])
    /\ ~Truthy(before.config[<<"n","o","_","t","e","m","p">>])
    /\ Truthy(args["tempdir"])
    /\ <<"t","e","m","p","d","i","r">> \in DOMAIN before.config
    /\ before.config[<<"t","e","m","p","d","i","r">>] # args["tempdir"]
    /\ DirName(ret[2]) = PathJoin(cwd, args["tempdir"][2])

\* the message on standard error has the value s in it
Names(s) == \E i \in 1..Len(stderr) : stderr[i] = Val(s)

SpeciesKeys == {<<"c","p","g","_","s","i","t","e","s">>, <<"g","e","n","e","s">>, <<"p","r","i","m","e","r","_","s","e","q","u","e","n","c","e","s">>}

\* what get_package_data leaves for a species of the allowed list, and for another
SpeciesResolved(species) ==
    /\ pc # "exit"
    /\ config[<<"m","a","t","r","i","x","_","f","i","l","e">>][2] # <<>>
    /\ \A k \in SpeciesKeys :
         /\ config[k][2] # <<>>
         /\ StartsWith(config[k][2], PackageDir \o <<"/","d","a","t","a","/">> \o species \o <<"/">>)

SpeciesRefused(species) ==
    /\ pc = "exit"
    /\ exitcode # 0
    /\ Names(species)
    /\ \A k \in SpeciesKeys : k \notin DOMAIN config

\* C4 as stated: a species of the allowed list gets its four paths; any other
\* ends the run with a non-zero status and a message that names the species
\* and the available alternatives, and no species path is recorded.
C4_Original ==
    last = "get_package_data" =>
      IF InList(ResolvedSpecies[2], config[<<"a","l","l","o","w","e","d","_","s","p","e","c","i","e","s">>][2])
      THEN SpeciesResolved(ResolvedSpecies[2])
      ELSE /\ SpeciesRefused(ResolvedSpecies[2])
           /\ \A i \in 1..Len(config[<<"a","l","l","o","w","e","d","_","s","p","e","c","i","e","s">>][2]) :
                Names(config[<<"a","l","l","o","w","e","d","_","s","p","e","c","i","e","s">>][2][i])

\* C4 amended: as stated, but the message names the species only.
C4_SpeciesResolution ==
    last = "get_package_data" =>
      IF InList(ResolvedSpecies[2], config[<<"a","l","l","o","w","e","d","_","s","p","e","c","i","e","s">>][2])
      THEN SpeciesResolved(ResolvedSpecies[2])
      ELSE SpeciesRefused(ResolvedSpecies[2])

C4_Witness ==
    /\ last = "get_package_data"
    /\ pc = "exit"
    /\ args["species"] = Str(<<"c","a","t">>)
    /\ before.config[<<"s","p","e","c","i","e","s">>] # Str(<<"c","a","t">>)
    /\ exitcode = ExitStatus(-1)
    /\ Names(<<"c","a","t">>)

\* the csv look_for_barcodes_csv opened, and the list it read from it
CsvRead == Files[barcodes_csv_path(args["barcodes_csv"], cwd, before.config).path]

\* C5: after look_for_barcodes_csv read a csv with a barcode column whose
\* values all start with NB or BC, the dict holds the barcodes in file order,
\* as a list or joined by commas, for what runs next.
C5_BarcodesAvailable ==
    (/\ last = "look_for_barcodes_csv"
     /\ pc # "exit"
     /\ barcodes_csv_path(args["barcodes_csv"], cwd, before.config).path # <<>>) =>
      \E k \in DOMAIN config :
        \/ config[k] = List(read_barcodes(CsvRead))
        \/ config[k] = Str(Join(read_barcodes(CsvRead), <<",">>))

MissingHeader == <<Lit("Error: Barcode file missing header field barcode\n")>>

\* C6: when the run ends on a barcodes csv without the barcode column, no
\* directory was made in that run.
C6_NoDirectoryBeforeHeaderError ==
    (last = "look_for_barcodes_csv" /\ pc = "exit" /\ stderr = MissingHeader) =>
      (dirs = InitialDirs /\ pending = {} /\ dropped = {})

ValidKits == {<<"n","a","t","i","v","e">>, <<"p","c","r">>, <<"r","a","p","i","d">>, <<"a","l","l">>}

\* the barcode kit the run is given: --barcode-kit, else the dict's barcode_kit
GivenKit ==
    IF Truthy(args["barcode_kit"]) THEN args["barcode_kit"]
    ELSE Lookup(before.config, <<"b","a","r","c","o","d","e","_","k","i","t">>)

\* C7: check_barcode_kit returns with barcode_set set to the lower-cased kit
\* when that is one of native, pcr, rapid, all; for any other kit it ends the
\* run with the message that lists the four, and sets no barcode_set.
C7_BarcodeKit ==
    (last = "check_barcode_kit" /\ GivenKit[1] = "str") =>
      IF Lower(GivenKit[2]) \in ValidKits
      THEN pc # "exit" /\ Lookup(config, <<"b","a","r","c","o","d","e","_","s","e","t">>) = Str(Lower(GivenKit[2]))
      ELSE /\ pc = "exit"
           /\ exitcode = ExitStatus(-1)
           /\ <<"b","a","r","c","o","d","e","_","s","e","t">> \notin DOMAIN config

\* C8: look_for_basecalled_reads returns only when --read-dir names a path
\* that exists or, without --read-dir, the dict has a non-empty read_path
\* under which, from the config file's directory, a .fastq or .fq file lies.
C8_ReadPathValidated ==
    (last = "look_for_basecalled_reads" /\ pc # "exit") =>
      IF Truthy(args["read_dir"])
      THEN Exists(PathJoin(cwd, args["read_dir"][2]), dirs, yamlfile)
      ELSE /\ Truthy(Lookup(before.config, <<"r","e","a","d","_","p","a","t","h">>))
           /\ \E f \in DOMAIN Files :
                /\ StartsWith(f, PathJoin(cwd, before.config[<<"r","e","a","d","_","p","a","t","h">>][2]) \o <<"/">>)
                /\ \E ext \in {<<".","f","a","s","t","q">>, <<".","f","q">>} : EndsWith(Lower(f), ext)

\* C9: with --configfile, look_for_config ends the run exactly when the file
\* is not there, and otherwise returns its path, records it as configfile and
\* its directory as path_to_config; without, it always returns:
\* <cwd>/config.yaml when that exists, else "", and path_to_config is cwd.
C9_ConfigDiscovery ==
    last = "look_for_config" =>
      IF Truthy(args["configfile"])
      THEN LET configfile == PathJoin(cwd, args["configfile"][2])
           IN  /\ (pc = "exit") <=> ~IsFile(configfile, yamlfile)
               /\ IsFile(configfile, yamlfile) =>
                    /\ ret = Str(configfile)
                    /\ Lookup(config, <<"c","o","n","f","i","g","f","i","l","e">>) = Str(configfile)
                    /\ Lookup(config, <<"p","a","t","h","_","t","o","_","c","o","n","f","i","g">>) = Str(DirName(configfile))
      ELSE /\ pc # "exit"
           /\ config[<<"p","a","t","h","_","t","o","_","c","o","n","f","i","g">>] = Str(cwd)
           /\ IF yamlfile.exists
              THEN ret = Str(PathJoin(cwd, ConfigYaml)) /\ config[<<"c","o","n","f","i","g","f","i","l","e">>] = ret
              ELSE ret = Str(<<>>) /\ config = Put(get_defaults, <<"p","a","t","h","_","t","o","_","c","o","n","f","i","g">>, Str(cwd))

\* C10 as stated: two resolutions without --outdir at different instants
\* give different output directories; each directory exists afterwards and is
\* config["outdir"]; a directory that was there already is kept, and
\* get_outdir does not fail.
OutdirsKept ==
    /\ \A i \in 1..Len(resolved) : resolved[i].outdir \in dirs
    /\ (last = "get_outdir" /\ ~Truthy(args["outdir"])) =>
         /\ pc # "exit"
         /\ config[<<"o","u","t","d","i","r">>] = Str(resolved[Len(resolved)].outdir)

C10_Original ==
    /\ OutdirsKept
    /\ \A i, j \in 1..Len(resolved) :
         resolved[i].now # resolved[j].now => resolved[i].outdir # resolved[j].outdir

\* C10 amended: the instants differ in their millisecond.
C10_DistinctOutdirs ==
    /\ OutdirsKept
    /\ \A i, j \in 1..Len(resolved) :
         (resolved[i].now \div 1000) # (resolved[j].now \div 1000)
           => resolved[i].outdir # resolved[j].outdir

C10_Witness ==
    /\ Len(resolved) >= 2
    /\ (resolved[1].now \div 1000) # (resolved[2].now \div 1000)
    /\ resolved[1].outdir # resolved[2].outdir
    /\ {resolved[1].outdir, resolved[2].outdir} \subseteq dirs \ InitialDirs

====
